---- MODULE Spec2Model ----
(***************************************************************************)
(* Model of processar_pdf_para_streamlit (src/pdf_converter_app.py): the   *)
(* text extraction loop, the line scan with its section flag, the data     *)
(* pattern, the amount conversion and the final outcome.  Lines are real   *)
(* character strings; strip, substring tests, split and the regular        *)
(* expression are computed character by character.                        *)
(***************************************************************************)
EXTENDS Integers, Sequences, FiniteSets, TLC

VARIABLES pdf, pc, extracted_text_lines, info_messages, extracted_data,
          in_data_section, line_number, candidate_lines, result,
          valor_str, valor_float, reformatted

vars == <<pdf, pc, extracted_text_lines, info_messages, extracted_data,
          in_data_section, line_number, candidate_lines, result,
          valor_str, valor_float, reformatted>>

(* ---------------------------- bounds ----------------------------------- *)
MaxPages == 2
MaxLines == 3
MaxGroups == 1

(* ------------------------- string primitives --------------------------- *)
Min(S) == CHOOSE x \in S : \A y \in S : x <= y
Max(S) == CHOOSE x \in S : \A y \in S : x >= y

CharAt(s, i) == SubSeq(s, i, i)

\* the whitespace characters of the modelled alphabet (str.strip, \s, \S)
IsSpace(c) == c \in {" ", "\t"}

\* \d restricted to the ASCII digits
IsDigit(c) == c \in {"0", "1", "2", "3", "4", "5", "6", "7", "8", "9"}

AllDigits(s) == \A i \in 1..Len(s) : IsDigit(CharAt(s, i))

\* str.strip()
Strip(s) ==
    LET idx == {i \in 1..Len(s) : ~IsSpace(CharAt(s, i))}
    IN  IF idx = {} THEN "" ELSE SubSeq(s, Min(idx), Max(idx))

\* sub in s
Contains(s, sub) ==
    \E i \in 1..(Len(s) - Len(sub) + 1) : SubSeq(s, i, i + Len(sub) - 1) = sub

\* s.startswith(p)
StartsWith(s, p) == Len(s) >= Len(p) /\ SubSeq(s, 1, Len(p)) = p

\* text.split('\n')
RECURSIVE Split(_)
Split(text) ==
    LET idx == {i \in 1..Len(text) : CharAt(text, i) = "\n"}
    IN  IF idx = {} THEN <<text>>
        ELSE <<SubSeq(text, 1, Min(idx) - 1)>>
             \o Split(SubSeq(text, Min(idx) + 1, Len(text)))

\* s.replace(a, b) for a single character a
RECURSIVE Replace(_, _, _)
Replace(s, a, b) ==
    IF s = "" THEN ""
    ELSE (IF CharAt(s, 1) = a THEN b ELSE CharAt(s, 1))
         \o Replace(SubSeq(s, 2, Len(s)), a, b)

NonSpaceRun(s, a, b) == \A p \in a..b : ~IsSpace(CharAt(s, p))
SpaceRun(s, a, b) == \A p \in a..b : IsSpace(CharAt(s, p))

(* -------------------- the data pattern (line 44) ----------------------- *)
\* (?:\.\d{3})* anchored to the whole of s
RECURSIVE IsThousandsGroups(_)
IsThousandsGroups(s) ==
    IF s = "" THEN TRUE
    ELSE /\ Len(s) >= 4
         /\ CharAt(s, 1) = "."
         /\ AllDigits(SubSeq(s, 2, 4))
         /\ IsThousandsGroups(SubSeq(s, 5, Len(s)))

\* the amount with one or two fractional digits: ,\d{1,2}
IsAmountOneFraction(tok) ==
    LET n == Len(tok)
        k == IF n >= 2 /\ CharAt(tok, n - 1) = "," THEN 1 ELSE 2
    IN  /\ n >= k + 2
        /\ CharAt(tok, n - k) = ","
        /\ AllDigits(SubSeq(tok, n - k + 1, n))
        /\ \E a \in 1..3 :
              /\ a <= n - k - 1
              /\ AllDigits(SubSeq(tok, 1, a))
              /\ IsThousandsGroups(SubSeq(tok, a + 1, n - k - 1))

\* the amount as any token with a "," before its last two characters
IsAmountAnyToken(tok) ==
    LET n == Len(tok)
    IN  /\ n >= 4
        /\ CharAt(tok, n - 2) = ","
        /\ NonSpaceRun(tok, 1, n)

\* \d{1,3}(?:\.\d{3})*,\d{2} anchored to the whole of tok
IsAmount(tok) ==
    LET n == Len(tok)
    IN  /\ n >= 4
        /\ CharAt(tok, n - 2) = ","
        /\ AllDigits(SubSeq(tok, n - 1, n))
        /\ \E a \in 1..3 :
              /\ a <= n - 3
              /\ AllDigits(SubSeq(tok, 1, a))
              /\ IsThousandsGroups(SubSeq(tok, a + 1, n - 3))

\* Every way of cutting s as  \S+ \s+ .* \s+ amount : <<i, j, k, l>> are the
\* last positions of group 1, the first gap, group 2 and the second gap.
Decompositions(s) ==
    LET n == Len(s)
    IN  UNION { UNION { UNION { { <<i, j, k, l>> : l \in
                    {l \in (k + 1)..(n - 1) :
                        /\ SpaceRun(s, k + 1, l)
                        /\ IsAmount(SubSeq(s, l + 1, n))} }
                  : k \in j..(n - 2) }
                : j \in {j \in (i + 1)..(n - 2) : SpaceRun(s, i + 1, j)} }
              : i \in {i \in 1..(n - 2) : NonSpaceRun(s, 1, i)} }

\* The backtracking order of the matcher: group 1 and the first gap greedy,
\* group 2 lazy, the second gap greedy.
Preferred(d, e) ==
    \/ d[1] > e[1]
    \/ d[1] = e[1] /\ d[2] > e[2]
    \/ d[1] = e[1] /\ d[2] = e[2] /\ d[3] < e[3]
    \/ d[1] = e[1] /\ d[2] = e[2] /\ d[3] = e[3] /\ d[4] >= e[4]

NoMatch == [matched |-> FALSE, group1 |-> "", group2 |-> "", group3 |-> ""]

\* data_pattern.match(cleaned_line)
DataPatternMatch(cleaned_line) ==
    LET D == Decompositions(cleaned_line)
    IN  IF D = {} THEN NoMatch
        ELSE LET d == CHOOSE d \in D : \A e \in D : Preferred(d, e)
             IN  [matched |-> TRUE,
                  group1 |-> SubSeq(cleaned_line, 1, d[1]),
                  group2 |-> SubSeq(cleaned_line, d[2] + 1, d[3]),
                  group3 |-> SubSeq(cleaned_line, d[4] + 1, Len(cleaned_line))]

(* ------------------ the amount conversion (line 66) -------------------- *)
RECURSIVE StripLeadingZeros(_)
StripLeadingZeros(s) ==
    IF Len(s) > 1 /\ CharAt(s, 1) = "0"
    THEN StripLeadingZeros(SubSeq(s, 2, Len(s)))
    ELSE s

RECURSIVE StripTrailingZeros(_)
StripTrailingZeros(s) ==
    IF s # "" /\ CharAt(s, Len(s)) = "0"
    THEN StripTrailingZeros(SubSeq(s, 1, Len(s) - 1))
    ELSE s

\* A float is kept as the decimal it was read from, in lowest terms: the
\* digits of the whole part without leading zeros and the digits of the
\* fraction without trailing zeros, so that equal numbers are equal values.
\* Within the bounded tokens (fewer than 15 significant digits) a double
\* identifies that decimal, so nothing is lost by keeping the decimal.
ValueError == [ok |-> FALSE, whole |-> "", frac |-> ""]

\* float(s) for the unsigned literals  digits [ "." digits ]  and  "." digits
Float(s) ==
    LET dots == {i \in 1..Len(s) : CharAt(s, i) = "."}
        w == IF dots = {} THEN s ELSE SubSeq(s, 1, Min(dots) - 1)
        f == IF dots = {} THEN "" ELSE SubSeq(s, Min(dots) + 1, Len(s))
    IN  IF /\ Cardinality(dots) <= 1
           /\ AllDigits(w) /\ AllDigits(f)
           /\ Len(w) + Len(f) >= 1
        THEN [ok |-> TRUE,
              whole |-> IF w = "" THEN "0" ELSE StripLeadingZeros(w),
              frac |-> StripTrailingZeros(f)]
        ELSE ValueError

\* the two replacements in the other order
NormalizeSwapped(token) == Replace(Replace(token, ",", "."), ".", "")

\* valor_str.replace('.', '').replace(',', '.')
Normalize(token) == Replace(Replace(token, ".", ""), ",", ".")

\* float(valor_str.replace('.', '').replace(',', '.'))
ParseAmount(token) == Float(Normalize(token))

(* ------- reformatting with the same locale rule (spec.md, section 8) --- *)
\* thousands groups separated by "."
RECURSIVE GroupThousands(_)
GroupThousands(digits) ==
    IF Len(digits) <= 3 THEN digits
    ELSE GroupThousands(SubSeq(digits, 1, Len(digits) - 3))
         \o "." \o SubSeq(digits, Len(digits) - 2, Len(digits))

\* the fraction written with two digits
TwoDigits(frac) ==
    IF Len(frac) = 0 THEN "00" ELSE IF Len(frac) = 1 THEN frac \o "0" ELSE frac

\* the value written with "." thousands groups, "," and two fractional
\* digits; defined for the values with at most two fractional digits
FormatAmount(v) == GroupThousands(v.whole) \o "," \o TwoDigits(v.frac)

(* ----------------------- the log's messages ---------------------------- *)
MsgStart == <<"--- Iniciando processamento do PDF ---">>
MsgExtracting == <<"--- Extraindo texto do PDF (pode levar um momento) ---">>
MsgNumPages(num_pages) == <<"PDF contem pagina(s).", num_pages>>
MsgPage(i, num_pages) == <<"Processando pagina", i, num_pages>>
MsgNoPageText(i) == <<"Aviso: Nenhum texto extraido da pagina", i>>
MsgExtractionError == <<"Erro ao abrir ou extrair texto do PDF">>
MsgEmptyText == <<"Erro: Nenhum texto foi extraido do PDF.">>
MsgScanning == <<"--- Processando linhas do texto extraido ---">>
MsgSection(n) == <<"Info Linha", n, "Secao de dados iniciada.">>
MsgWarn(n, token, cleaned_line) == <<"Aviso Linha", n, token, cleaned_line>>
MsgNoData == <<"Atencao: Nenhum dado no formato esperado foi extraido">>
MsgScanDone(count) == <<"--- Processamento de texto concluido.", count>>
MsgDataFrame == <<"--- DataFrame criado com os dados extraidos ---">>
MsgDataFrameError == <<"Erro durante a criacao do DataFrame">>
MsgExcel == <<"--- Gerando arquivo Excel em memoria ---">>
MsgExcelOk == <<"Arquivo Excel gerado com sucesso!">>
MsgExcelError == <<"Erro ao gerar o arquivo Excel">>

(* ------------------- text extraction (lines 16-39) --------------------- *)
\* The page loop over pages 1..upto: the lines collected and the messages
\* appended.  A page whose text is empty (or None) contributes no line.
\* the page loop without the test of the page's text
RECURSIVE PageLoopNoTextCheck(_, _)
PageLoopNoTextCheck(pages, upto) ==
    IF upto = 0 THEN [lines |-> <<>>, msgs |-> <<>>]
    ELSE LET before == PageLoopNoTextCheck(pages, upto - 1)
         IN  [lines |-> before.lines \o Split(pages[upto]),
              msgs  |-> Append(before.msgs, MsgPage(upto, Len(pages)))]

RECURSIVE PageLoop(_, _)
PageLoop(pages, upto) ==
    IF upto = 0 THEN [lines |-> <<>>, msgs |-> <<>>]
    ELSE LET before == PageLoop(pages, upto - 1)
             text   == pages[upto]
         IN  IF text # ""
             THEN [lines |-> before.lines \o Split(text),
                   msgs  |-> Append(before.msgs, MsgPage(upto, Len(pages)))]
             ELSE [lines |-> before.lines,
                   msgs  |-> before.msgs \o <<MsgPage(upto, Len(pages)),
                                              MsgNoPageText(upto)>>]

\* if not extracted_text_lines
NoTextExtracted(lines) == lines = <<>>

(* --------------------- the line scan (lines 48-69) --------------------- *)
HeaderA == "CLSF.CONTABIL"
HeaderB == "DENOMINACAO / RUBRICA"

\* either marker is taken for the header
IsHeaderLineEither(cleaned_line) ==
    Contains(cleaned_line, HeaderA) \/ Contains(cleaned_line, HeaderB)

\* line 52
IsHeaderLine(cleaned_line) ==
    Contains(cleaned_line, HeaderA) /\ Contains(cleaned_line, HeaderB)

\* the flag flipped instead of set
EnterSectionToggle(flag) == ~flag

\* line 53
EnterSection(flag) == TRUE

\* line 57 without the test of the section flag
IsSkippedNoSectionCheck(flag, cleaned_line) ==
    \/ cleaned_line = ""
    \/ Contains(cleaned_line, "---")
    \/ StartsWith(cleaned_line, "***")
    \/ Contains(cleaned_line, "SIAPE, GERENCIAL")
    \/ StartsWith(cleaned_line, "DATA:")

\* line 57 with the separator looked for at the start of the line only
IsSkippedDashesAtStart(flag, cleaned_line) ==
    \/ ~flag
    \/ cleaned_line = ""
    \/ StartsWith(cleaned_line, "---")
    \/ StartsWith(cleaned_line, "***")
    \/ Contains(cleaned_line, "SIAPE, GERENCIAL")
    \/ StartsWith(cleaned_line, "DATA:")

\* line 57
IsSkipped(flag, cleaned_line) ==
    \/ ~flag
    \/ cleaned_line = ""
    \/ Contains(cleaned_line, "---")
    \/ StartsWith(cleaned_line, "***")
    \/ Contains(cleaned_line, "SIAPE, GERENCIAL")
    \/ StartsWith(cleaned_line, "DATA:")

\* a record equal to one already collected is dropped
AppendRecordDedup(data, record) ==
    IF \E i \in 1..Len(data) : data[i] = record THEN data
    ELSE Append(data, record)

\* line 67
AppendRecord(data, record) == Append(data, record)

\* the test taken as "fewer than two records"
NoDataAtMostOne(data) == Len(data) <= 1

\* if not extracted_data
NoData(data) == data = <<>>

(* ------------------------------ inputs --------------------------------- *)
HeaderLine == "CLSF.CONTABIL DENOMINACAO / RUBRICA 1,00"

PlainHeaderLine == " CLSF.CONTABIL DENOMINACAO / RUBRICA VALOR / TOTAL"

\* a data row, untrimmed, that holds one of the two markers
OneMarkerLine == " CLSF.CONTABIL A  B 1.234,56\t"

\* The lines of the scan as a whole: an empty line, the header (itself shaped
\* like a data row), the header alone, a data row and a row that misses
\* the pattern.
Lines == {"", HeaderLine, PlainHeaderLine, OneMarkerLine, "3.4 E X,XX"}

\* The lines of the structural noise, each shaped like a data row.
NoiseLines ==
    { "",
      HeaderLine,
      OneMarkerLine,
      "3.1 A---B 1,00",
      "*** X 1,00",
      "SIAPE, GERENCIAL 1,00",
      "DATA: X 1,00" }

\* The rows that miss the pattern, and the row with one gap that meets it.
MismatchLines ==
    { HeaderLine,
      OneMarkerLine,
      "3.3 D 12,5",
      "3.4 E X,XX",
      "3.5 1,00",
      "3.5  1,00" }

RECURSIVE Join(_)
Join(ls) ==
    IF Len(ls) = 1 THEN ls[1]
    ELSE Join(SubSeq(ls, 1, Len(ls) - 1)) \o "\n" \o ls[Len(ls)]

RECURSIVE Sum(_)
Sum(f) == IF Len(f) = 0 THEN 0 ELSE f[Len(f)] + Sum(SubSeq(f, 1, Len(f) - 1))

\* how many lines each page holds (0: the page has no text)
PageLens(max_pages) ==
    {lens \in UNION {[1..n -> 0..MaxLines] : n \in 0..max_pages} :
        Sum(lens) <= MaxLines}

PagesOf(lens, flat) ==
    [i \in 1..Len(lens) |->
        IF lens[i] = 0 THEN ""
        ELSE Join(SubSeq(flat, Sum(SubSeq(lens, 1, i - 1)) + 1,
                               Sum(SubSeq(lens, 1, i)))) ]

\* the documents of at most max_pages pages and MaxLines lines over a set of
\* lines
Docs(lines, max_pages) ==
    UNION { {PagesOf(lens, flat) : flat \in [1..Sum(lens) -> lines]}
            : lens \in PageLens(max_pages) }

\* the documents scanned: any pages over Lines, one page over the others
LibraryDocs(max_pages) ==
    Docs(Lines, max_pages) \cup Docs(NoiseLines, 1) \cup Docs(MismatchLines, 1)

AmountDigits == {"0", "7"}

RECURSIVE DigitStrings(_)
DigitStrings(n) ==
    IF n = 0 THEN {""}
    ELSE {d \o c : d \in DigitStrings(n - 1), c \in AmountDigits}

RECURSIVE GroupStrings(_)
GroupStrings(g) ==
    IF g = 0 THEN {""}
    ELSE {gs \o "." \o d : gs \in GroupStrings(g - 1), d \in DigitStrings(3)}

\* every token  D{1,3}(.DDD)*,DD  over AmountDigits with at most MaxGroups
\* thousands groups
Tokens ==
    {f \o gs \o "," \o c :
        f \in DigitStrings(1) \cup DigitStrings(2) \cup DigitStrings(3),
        gs \in UNION {GroupStrings(g) : g \in 0..MaxGroups},
        c \in DigitStrings(2)}

\* one page: the header, then a data row carrying the token
TokenDocs == { <<HeaderLine \o "\n" \o "3.1 A " \o tok>> : tok \in Tokens }

NoResult == [returned |-> FALSE, success |-> FALSE, payload |-> <<>>]
NoValue == [ok |-> FALSE, whole |-> "", frac |-> ""]

Columns == <<"CLSF.CONTABIL", "DENOMINACAO / RUBRICA", "VALOR / TOTAL">>
ExcelBytes(rows) == <<"xlsx", "Dados_Extraidos", Columns, rows>>

(* ------------------------------- Init ---------------------------------- *)
Idle ==
    /\ extracted_text_lines = <<>>
    /\ info_messages = <<MsgStart>>
    /\ extracted_data = <<>>
    /\ in_data_section = FALSE
    /\ line_number = 0
    /\ candidate_lines = <<>>
    /\ result = NoResult

Init ==
    /\ pdf \in LibraryDocs(MaxPages) \cup TokenDocs
    /\ pc = "start"
    /\ Idle
    /\ valor_str = ""
    /\ valor_float = NoValue
    /\ reformatted = ""

(* ------------------------------ actions -------------------------------- *)
Return(ok, payload) == [returned |-> TRUE, success |-> ok, payload |-> payload]

\* lines 20-34: open, or extract_text of page k, raises
ExtractionError ==
    /\ pc = "start"
    /\ \E k \in 0..Len(pdf) :
          LET done == PageLoop(pdf, IF k = 0 THEN 0 ELSE k - 1)
          IN  /\ extracted_text_lines' = done.lines
              /\ info_messages' =
                    info_messages \o <<MsgExtracting>>
                    \o (IF k = 0 THEN <<>>
                        ELSE <<MsgNumPages(Len(pdf))>> \o done.msgs
                             \o <<MsgPage(k, Len(pdf))>>)
                    \o <<MsgExtractionError>>
    /\ result' = Return(FALSE, MsgExtractionError)
    /\ pc' = "done"
    /\ UNCHANGED <<pdf, extracted_data, in_data_section, line_number,
                   candidate_lines, valor_str, valor_float, reformatted>>

\* lines 19-30, 36-39: no page gave any text
EmptyTextError ==
    /\ pc = "start"
    /\ LET done == PageLoop(pdf, Len(pdf))
       IN  /\ NoTextExtracted(done.lines)
           /\ extracted_text_lines' = done.lines
           /\ info_messages' =
                 info_messages \o <<MsgExtracting, MsgNumPages(Len(pdf))>>
                 \o done.msgs \o <<MsgEmptyText>>
    /\ result' = Return(FALSE, MsgEmptyText)
    /\ pc' = "done"
    /\ UNCHANGED <<pdf, extracted_data, in_data_section, line_number,
                   candidate_lines, valor_str, valor_float, reformatted>>

\* lines 19-30, 36, 42-47: the text was extracted, the scan starts
BeginScan ==
    /\ pc = "start"
    /\ LET done == PageLoop(pdf, Len(pdf))
       IN  /\ ~NoTextExtracted(done.lines)
           /\ extracted_text_lines' = done.lines
           /\ info_messages' =
                 info_messages \o <<MsgExtracting, MsgNumPages(Len(pdf))>>
                 \o done.msgs \o <<MsgScanning>>
    /\ extracted_data' = <<>>
    /\ in_data_section' = FALSE
    /\ line_number' = 0
    /\ pc' = "scan"
    /\ UNCHANGED <<pdf, candidate_lines, result, valor_str, valor_float,
                   reformatted>>

\* lines 48-69: one iteration of the loop over the extracted lines
ScanLine ==
    /\ pc = "scan"
    /\ line_number < Len(extracted_text_lines)
    /\ line_number' = line_number + 1
    /\ LET cleaned_line == Strip(extracted_text_lines[line_number + 1])
           match == DataPatternMatch(cleaned_line)
           valor == ParseAmount(match.group3)
       IN  IF IsHeaderLine(cleaned_line)
           THEN /\ in_data_section' = EnterSection(in_data_section)
                /\ info_messages' =
                      Append(info_messages, MsgSection(line_number + 1))
                /\ UNCHANGED <<extracted_data, candidate_lines>>
           ELSE IF IsSkipped(in_data_section, cleaned_line)
           THEN UNCHANGED <<in_data_section, info_messages, extracted_data,
                            candidate_lines>>
           ELSE /\ candidate_lines' =
                      Append(candidate_lines, <<line_number + 1, cleaned_line>>)
                /\ UNCHANGED in_data_section
                /\ IF ~match.matched
                   THEN UNCHANGED <<extracted_data, info_messages>>
                   ELSE IF valor.ok
                   THEN /\ extracted_data' =
                              AppendRecord(extracted_data,
                                  <<match.group1, Strip(match.group2), valor>>)
                        /\ UNCHANGED info_messages
                   ELSE /\ info_messages' =
                              Append(info_messages,
                                  MsgWarn(line_number + 1, match.group3,
                                          cleaned_line))
                        /\ UNCHANGED extracted_data
    /\ UNCHANGED <<pdf, pc, extracted_text_lines, result, valor_str,
                   valor_float, reformatted>>

\* lines 71-74: the scan ended without a record
NoDataExtractedError ==
    /\ pc = "scan"
    /\ line_number = Len(extracted_text_lines)
    /\ NoData(extracted_data)
    /\ info_messages' = Append(info_messages, MsgNoData)
    /\ result' = Return(FALSE, MsgNoData)
    /\ pc' = "done"
    /\ UNCHANGED <<pdf, extracted_text_lines, extracted_data, in_data_section,
                   line_number, candidate_lines, valor_str, valor_float,
                   reformatted>>

\* lines 71, 76: the scan ended with records
ScanCompleted ==
    /\ pc = "scan"
    /\ line_number = Len(extracted_text_lines)
    /\ ~NoData(extracted_data)
    /\ info_messages' = Append(info_messages, MsgScanDone(Len(extracted_data)))
    /\ pc' = "serialize"
    /\ UNCHANGED <<pdf, extracted_text_lines, extracted_data, in_data_section,
                   line_number, candidate_lines, result, valor_str,
                   valor_float, reformatted>>

\* lines 79-113: the table is built and written, or either step raises
Serialize ==
    /\ pc = "serialize"
    /\ \E outcome \in {"ok", "dataframe_error", "excel_error"} :
          IF outcome = "dataframe_error"
          THEN /\ info_messages' = Append(info_messages, MsgDataFrameError)
               /\ result' = Return(FALSE, MsgDataFrameError)
          ELSE IF outcome = "excel_error"
          THEN /\ info_messages' =
                     info_messages \o <<MsgDataFrame, MsgExcel, MsgExcelError>>
               /\ result' = Return(FALSE, MsgExcelError)
          ELSE /\ info_messages' =
                     info_messages \o <<MsgDataFrame, MsgExcel, MsgExcelOk>>
               /\ result' = Return(TRUE, ExcelBytes(extracted_data))
    /\ pc' = "done"
    /\ UNCHANGED <<pdf, extracted_text_lines, extracted_data, in_data_section,
                   line_number, candidate_lines, valor_str, valor_float,
                   reformatted>>

Next ==
    \/ ExtractionError
    \/ EmptyTextError
    \/ BeginScan
    \/ ScanLine
    \/ NoDataExtractedError
    \/ ScanCompleted
    \/ Serialize

Spec == Init /\ [][Next]_vars

(* ------------- the amount conversion on its own (line 66) -------------- *)
scan_vars == <<pdf, extracted_text_lines, info_messages, extracted_data,
               in_data_section, line_number, candidate_lines, result>>

InitAmount ==
    /\ pdf = <<>>
    /\ pc = "amount"
    /\ Idle
    /\ valor_str \in Tokens
    /\ valor_float = NoValue
    /\ reformatted = ""

\* valor_float = float(valor_str.replace('.', '').replace(',', '.'))
AmountParse ==
    /\ pc = "amount"
    /\ valor_float' = ParseAmount(valor_str)
    /\ pc' = "parsed"
    /\ UNCHANGED <<scan_vars, valor_str, reformatted>>

\* the parsed value written back with the same locale rule
AmountFormat ==
    /\ pc = "parsed"
    /\ valor_float.ok
    /\ reformatted' = FormatAmount(valor_float)
    /\ pc' = "formatted"
    /\ UNCHANGED <<scan_vars, valor_str, valor_float>>

NextAmount == AmountParse \/ AmountFormat

SpecAmount == InitAmount /\ [][NextAmount]_vars

(* ======================= properties of the scan ======================== *)
Kind(msg) == msg[1]
HasMsg(kind) == \E i \in 1..Len(info_messages) : Kind(info_messages[i]) = kind
Last(seq) == seq[Len(seq)]
IsLineEntry(msg) == Kind(msg) \in {"Info Linha", "Aviso Linha"}

\* the scan was started (the text extraction succeeded and gave lines)
Scanned == HasMsg(Kind(MsgScanning))
ScanEnded == Scanned /\ pc \in {"serialize", "done"}

\* a line that holds both header markers
HasBothMarkers(line) ==
    Contains(line, "CLSF.CONTABIL") /\ Contains(line, "DENOMINACAO / RUBRICA")

HeadersUpTo(n) ==
    {i \in 1..n : HasBothMarkers(extracted_text_lines[i])}

\* structural noise, as listed for the lines inside the section
StructuralNoise(cleaned) ==
    \/ Len(cleaned) = 0
    \/ \E i \in 1..Len(cleaned) - 2 : SubSeq(cleaned, i, i + 2) = "---"
    \/ (Len(cleaned) >= 3 /\ SubSeq(cleaned, 1, 3) = "***")
    \/ \E i \in 1..Len(cleaned) - 15 :
          SubSeq(cleaned, i, i + 15) = "SIAPE, GERENCIAL"
    \/ (Len(cleaned) >= 5 /\ SubSeq(cleaned, 1, 5) = "DATA:")

\* the line just read by a step of the scan
IsScanStep == pc = "scan" /\ line_number' = line_number + 1
ReadLine == Strip(extracted_text_lines[line_number + 1])
IsCandidateStep == IsScanStep /\ candidate_lines' # candidate_lines

IsPrefix(a, b) == Len(a) <= Len(b) /\ SubSeq(b, 1, Len(a)) = a

\* C1: no line before the first line holding both header markers reaches the
\* data pattern or yields a record or a line diagnostic, whatever it holds;
\* without such a line no record is produced.
C1_NothingBeforeHeader ==
    /\ HeadersUpTo(line_number) = {} =>
          /\ candidate_lines = <<>>
          /\ extracted_data = <<>>
          /\ \A i \in 1..Len(info_messages) : ~IsLineEntry(info_messages[i])
    /\ \A c \in 1..Len(candidate_lines) :
          \E h \in HeadersUpTo(line_number) : h < candidate_lines[c][1]
    /\ \A i \in 1..Len(info_messages) :
          IsLineEntry(info_messages[i]) =>
             \E h \in HeadersUpTo(line_number) : h <= info_messages[i][2]
    /\ (result.returned /\ HeadersUpTo(Len(extracted_text_lines)) = {}) =>
          (extracted_data = <<>> /\ ~result.success)

\* a data-shaped line holding one marker came first, was filtered, and the
\* same kind of line after the header gave a record
C1_Witness ==
    /\ pc = "done"
    /\ result.success
    /\ Len(extracted_text_lines) = 3
    /\ HeadersUpTo(3) = {2}
    /\ extracted_text_lines[1] = OneMarkerLine
    /\ extracted_text_lines[3] = OneMarkerLine
    /\ Len(extracted_data) = 1

\* C2: after the scan of a non-empty line stream the invocation fails with
\* the no-data error exactly when no record was produced; with a record the
\* scan ends in success and serialization starts; the scan never ends before
\* the last line.
C2_NoDataIffNoRecord ==
    /\ pc = "scan" => ~result.returned
    /\ pc = "serialize" => (Scanned /\ extracted_data # <<>> /\ ~result.returned)
    /\ ScanEnded =>
          /\ extracted_text_lines # <<>>
          /\ line_number = Len(extracted_text_lines)
          /\ extracted_data = <<>> <=>
                (/\ pc = "done"
                 /\ result = Return(FALSE, MsgNoData)
                 /\ Last(info_messages) = MsgNoData)
          /\ extracted_data # <<>> =>
                HasMsg(Kind(MsgScanDone(0)))
    /\ (result.returned /\ result.payload = MsgNoData) => ScanEnded

\* a mismatching candidate and a filtered line were passed and the record
\* after them still led to success
C2_Witness ==
    /\ pc = "done"
    /\ result.success
    /\ Len(extracted_text_lines) = 3
    /\ extracted_text_lines[2] = "3.4 E X,XX"
    /\ Len(candidate_lines) = 2
    /\ Len(extracted_data) = 1

C2_WitnessNoData ==
    /\ pc = "done"
    /\ result = Return(FALSE, MsgNoData)
    /\ Len(candidate_lines) = 2

\* the record a matching line gives
RecordOf(cleaned) ==
    LET match == DataPatternMatch(cleaned)
    IN  <<match.group1, Strip(match.group2), ParseAmount(match.group3)>>

\* the records of the first n lines: one per line that is past a header, is
\* no header and no structural noise, and matches the data pattern
RECURSIVE MatchingLines(_, _)
MatchingLines(lines, n) ==
    IF n = 0 THEN <<>>
    ELSE LET cleaned == Strip(lines[n])
         IN  IF /\ \E h \in 1..(n - 1) : HasBothMarkers(lines[h])
                /\ ~HasBothMarkers(lines[n])
                /\ ~StructuralNoise(cleaned)
                /\ DataPatternMatch(cleaned).matched
             THEN Append(MatchingLines(lines, n - 1), RecordOf(cleaned))
             ELSE MatchingLines(lines, n - 1)

\* C3: the records are, in order and with multiplicity, the lines that passed
\* the section scanner and matched the data pattern, and the serializer gets
\* exactly that sequence.
C3_RecordsAreMatchingLines ==
    /\ extracted_data = MatchingLines(extracted_text_lines, line_number)
    /\ result.success =>
          result.payload =
             ExcelBytes(MatchingLines(extracted_text_lines,
                                      Len(extracted_text_lines)))

\* two identical data lines gave two records
C3_Witness ==
    /\ pc = "done"
    /\ result.success
    /\ Len(extracted_text_lines) = 3
    /\ extracted_text_lines[2] = extracted_text_lines[3]
    /\ Len(extracted_data) = 2
    /\ extracted_data[1] = extracted_data[2]

\* C4: the section flag starts false and never goes back to false; a header
\* line met again appends one more "section started" entry with its line
\* number, is not handed to the extractor and leaves the records as they are.
C4_FlagMonotonic ==
    /\ [](pc = "start" => ~in_data_section)
    /\ [][in_data_section => in_data_section']_vars
    /\ [][(IsScanStep /\ HasBothMarkers(ReadLine)) =>
             /\ in_data_section'
             /\ info_messages' =
                   Append(info_messages, MsgSection(line_number + 1))
             /\ candidate_lines' = candidate_lines
             /\ extracted_data' = extracted_data]_vars

\* the header came again after a record had been collected
C4_Witness ==
    /\ pc = "scan"
    /\ line_number = 3
    /\ HeadersUpTo(3) = {1, 3}
    /\ in_data_section
    /\ Len(extracted_data) = 1
    /\ info_messages[Len(info_messages)] = MsgSection(3)

\* the last whitespace-separated token of a trimmed line
LastToken(cleaned) ==
    LET sp == {i \in 1..Len(cleaned) : IsSpace(CharAt(cleaned, i))}
    IN  IF sp = {} THEN cleaned ELSE SubSeq(cleaned, Max(sp) + 1, Len(cleaned))

\* a trailing amount with one fractional digit, as in "12,5"
OneFractionDigit(tok) ==
    /\ Len(tok) >= 3
    /\ CharAt(tok, Len(tok) - 1) = ","
    /\ IsDigit(CharAt(tok, Len(tok)))

\* a trailing token that is no number, as in "X,XX"
NonNumeric(tok) ==
    \E i \in 1..Len(tok) :
       ~IsDigit(CharAt(tok, i)) /\ CharAt(tok, i) \notin {".", ","}

\* how many whitespace characters, and how many runs of them, a line holds
SpaceChars(cleaned) ==
    Cardinality({i \in 1..Len(cleaned) : IsSpace(CharAt(cleaned, i))})
GapCount(cleaned) ==
    Cardinality({i \in 1..Len(cleaned) :
        /\ IsSpace(CharAt(cleaned, i))
        /\ (i = 1 \/ ~IsSpace(CharAt(cleaned, i - 1)))})

\* a candidate line adds at most one record or one diagnostic, never both
AtMostOneEffect ==
    /\ IsPrefix(extracted_data, extracted_data')
    /\ IsPrefix(info_messages, info_messages')
    /\ (Len(extracted_data') - Len(extracted_data))
       + (Len(info_messages') - Len(info_messages)) <= 1

NoEffect ==
    extracted_data' = extracted_data /\ info_messages' = info_messages

\* C5 as stated: a candidate line that misses the data pattern gives no
\* record and no diagnostic, which covers a one-digit fraction, a non-numeric
\* trailing token and a line with fewer than two whitespace gaps; a candidate
\* line adds at most one record or one diagnostic.
C5_Original ==
    [][IsCandidateStep =>
          /\ AtMostOneEffect
          /\ (\/ ~DataPatternMatch(ReadLine).matched
              \/ OneFractionDigit(LastToken(ReadLine))
              \/ NonNumeric(LastToken(ReadLine))
              \/ GapCount(ReadLine) < 2) => NoEffect]_vars

\* C5 (amended): as C5, with the third case being a line with fewer than two
\* whitespace characters between classification and amount.
C5_MismatchIsSilent ==
    [][IsCandidateStep =>
          /\ AtMostOneEffect
          /\ (\/ ~DataPatternMatch(ReadLine).matched
              \/ OneFractionDigit(LastToken(ReadLine))
              \/ NonNumeric(LastToken(ReadLine))
              \/ SpaceChars(ReadLine) < 2) => NoEffect]_vars

\* the one-digit fraction and the single-space line were candidates and left
\* no record and no diagnostic
C5_Witness ==
    /\ pc = "scan"
    /\ line_number = 3
    /\ extracted_text_lines[2] = "3.3 D 12,5"
    /\ extracted_text_lines[3] = "3.5 1,00"
    /\ candidate_lines = <<<<2, "3.3 D 12,5">>, <<3, "3.5 1,00">>>>
    /\ extracted_data = <<>>
    /\ Last(info_messages) = MsgSection(1)

\* the document holds the header and no later line matching the pattern
HeaderNoLaterMatch ==
    /\ HeadersUpTo(Len(extracted_text_lines)) # {}
    /\ \A i \in 1..Len(extracted_text_lines) :
          i > Min(HeadersUpTo(Len(extracted_text_lines))) =>
             ~DataPatternMatch(Strip(extracted_text_lines[i])).matched

RECURSIVE LineEntries(_)
LineEntries(msgs) ==
    IF msgs = <<>> THEN <<>>
    ELSE IF IsLineEntry(Last(msgs))
         THEN Append(LineEntries(SubSeq(msgs, 1, Len(msgs) - 1)), Last(msgs))
         ELSE LineEntries(SubSeq(msgs, 1, Len(msgs) - 1))

RECURSIVE SectionEntries(_, _)
SectionEntries(lines, n) ==
    IF n = 0 THEN <<>>
    ELSE IF HasBothMarkers(lines[n])
         THEN Append(SectionEntries(lines, n - 1), MsgSection(n))
         ELSE SectionEntries(lines, n - 1)

ProgressKinds ==
    {Kind(MsgStart), Kind(MsgExtracting), Kind(MsgNumPages(0)),
     Kind(MsgPage(0, 0)), Kind(MsgNoPageText(0)), Kind(MsgScanning)}

\* C6 as stated: with the header and no later matching line the invocation
\* fails with the no-data error and the log holds the "section started"
\* entry and nothing else.
C6_Original ==
    (result.returned /\ Scanned /\ HeaderNoLaterMatch) =>
       /\ result = Return(FALSE, MsgNoData)
       /\ \E h \in 1..Len(extracted_text_lines) :
             info_messages = <<MsgSection(h)>>

\* C6 (amended): with the header and no later matching line the invocation
\* fails with the no-data error; the line entries of the log are the
\* "section started" entries, one per header line, and no warning; the rest
\* of the log is the progress messages and, last, the no-data message.
C6_OnlySectionEntries ==
    (result.returned /\ Scanned /\ HeaderNoLaterMatch) =>
       /\ result = Return(FALSE, MsgNoData)
       /\ LineEntries(info_messages) =
             SectionEntries(extracted_text_lines, Len(extracted_text_lines))
       /\ Last(info_messages) = MsgNoData
       /\ \A i \in 1..(Len(info_messages) - 1) :
             \/ IsLineEntry(info_messages[i])
             \/ Kind(info_messages[i]) \in ProgressKinds

\* header, a candidate that misses the pattern, header again: no-data error
C6_Witness ==
    /\ pc = "done"
    /\ Len(extracted_text_lines) = 3
    /\ Scanned
    /\ HeaderNoLaterMatch
    /\ HeadersUpTo(3) = {1, 3}
    /\ Len(candidate_lines) = 1
    /\ result = Return(FALSE, MsgNoData)

(* ================== properties of the amount conversion ================ *)
\* the integer part has no leading zero that the number does not need
NoLeadingZero(token) == CharAt(token, 1) # "0" \/ CharAt(token, 2) = ","

ZeroLines == \A i \in 1..Len(pdf) : pdf[i] = ""

ExtractionFailed == result.returned /\ result.payload = MsgExtractionError

\* C8: a document whose extraction gives no line fails with the empty-text
\* error before the scan starts (flag never set, no line examined, no record,
\* never the no-data error); a document with a line never reports it.
C8_EmptyTextBeforeScan ==
    /\ ZeroLines =>
          /\ pc \in {"start", "done"}
          /\ ~Scanned
          /\ ~in_data_section
          /\ line_number = 0
          /\ candidate_lines = <<>>
          /\ extracted_data = <<>>
          /\ (result.returned /\ ~ExtractionFailed) =>
                (/\ result = Return(FALSE, MsgEmptyText)
                 /\ Last(info_messages) = MsgEmptyText)
    /\ ~ZeroLines => result.payload # MsgEmptyText

\* two pages, neither with text: the empty-text error
C8_Witness ==
    /\ pc = "done"
    /\ pdf = <<"", "">>
    /\ result = Return(FALSE, MsgEmptyText)
    /\ extracted_text_lines = <<>>

NormalizedShape(str) ==
    /\ Len(str) >= 4
    /\ CharAt(str, Len(str) - 2) = "."
    /\ AllDigits(SubSeq(str, 1, Len(str) - 3))
    /\ AllDigits(SubSeq(str, Len(str) - 1, Len(str)))

MatchedCandidates ==
    {c \in 1..Len(candidate_lines) :
        DataPatternMatch(candidate_lines[c][2]).matched}

\* C10: the amount of every candidate line that matches the pattern
\* normalizes to digits, ".", two digits and parses, so each match gives one
\* record and the log never holds an invalid-amount warning.
C10_WarningUnreachable ==
    /\ \A i \in 1..Len(info_messages) :
          Kind(info_messages[i]) # Kind(MsgWarn(0, "", ""))
    /\ \A c \in MatchedCandidates :
          LET token == DataPatternMatch(candidate_lines[c][2]).group3
          IN  /\ NormalizedShape(Replace(Replace(token, ".", ""), ",", "."))
              /\ ParseAmount(token).ok
    /\ Len(extracted_data) = Cardinality(MatchedCandidates)

\* an amount with leading zeros and a thousands group became a record
C10_Witness ==
    /\ pc = "done"
    /\ result.success
    /\ candidate_lines = <<<<2, "3.1 A 007.000,70">>>>
    /\ extracted_data = <<<<"3.1", "A", [ok |-> TRUE, whole |-> "7000", frac |-> "7"]>>>>

====
